---- MODULE Spec2Model ----
(***************************************************************************)
(* Model of dashboard/generate_html_dashboard.py: the fact-table builder   *)
(* load_data (a chain of pandas left merges over the Olist CSV extracts),  *)
(* the interactive Streamlit script that filters the fact table and        *)
(* computes KPI tiles and chart datasets on every rerun, and the static    *)
(* script that computes KPI tiles from a pre-joined CSV.                   *)
(*                                                                         *)
(* Tables are sequences of records (a DataFrame's rows in order).  Money   *)
(* is kept in centavos (BRL 17.00 is 1700) so that round(x, 1) is a real   *)
(* conversion; means are kept as exact fractions [num, den].               *)
(***************************************************************************)
EXTENDS Integers, Sequences, FiniteSets, TLC

(* ------------------------------------------------------------------ *)
(* Bounds of the model                                                 *)
(* ------------------------------------------------------------------ *)
\* Most rows the order-items extract holds.
MaxItems == 3
\* Most rows the payments extract holds.
MaxPayments == 2
\* Most rows the reviews extract holds.
MaxReviews == 2
\* The N of value_counts().head(N) that builds the category options.  The
\* script uses 50; the model keeps N small so that a fact table of a few
\* rows can hold more categories than N.
TopCategories == 2

(* ------------------------------------------------------------------ *)
(* Nulls                                                               *)
(* ------------------------------------------------------------------ *)
\* pandas' NaN in a numeric column (every real value of the model is >= 0).
NaN == -1
\* pandas' NaN in a string column.
NullStr == "<NA>"
\* NaT in a timestamp column.
NaT == [year |-> NaN, month |-> NaN]
\* NaN as the result of a mean over nothing.
NaNFrac == [num |-> 0, den |-> 0]

(* ------------------------------------------------------------------ *)
(* Sequence helpers                                                    *)
(* ------------------------------------------------------------------ *)
RECURSIVE Flatten(_)
Flatten(ss) ==
  IF ss = <<>> THEN <<>> ELSE Head(ss) \o Flatten(Tail(ss))

RECURSIVE SumSeq(_)
SumSeq(s) ==
  IF s = <<>> THEN 0 ELSE Head(s) + SumSeq(Tail(s))

RECURSIVE SortedSeq(_)
SortedSeq(S) ==
  IF S = {} THEN <<>>
  ELSE LET m == CHOOSE x \in S : \A y \in S : x <= y
       IN  <<m>> \o SortedSeq(S \ {m})

Range(s) == {s[i] : i \in 1..Len(s)}

Column(tbl, col) == [i \in 1..Len(tbl) |-> tbl[i][col]]

\* The rows of tbl whose column col holds v.
RowsOf(tbl, col, v) == SelectSeq(tbl, LAMBDA r : r[col] = v)

\* Every subsequence of s (rows of s kept in order, each at most once).
RECURSIVE SubSeqs(_)
SubSeqs(s) ==
  IF s = <<>> THEN {<<>>}
  ELSE LET rest == SubSeqs(Tail(s))
       IN  rest \cup {<<Head(s)>> \o t : t \in rest}

\* Every sequence of at most n rows drawn from S.
SeqsUpTo(S, n) == UNION {[1..k -> S] : k \in 0..n}

(* ------------------------------------------------------------------ *)
(* The CSV extracts the model draws its inputs from                    *)
(* ------------------------------------------------------------------ *)
\* olist_orders_dataset.csv: order_id, customer_id, order_purchase_timestamp.
OrderRows == <<
  [order_id |-> 1, customer_id |-> "C1",
   order_purchase_timestamp |-> [year |-> 2017, month |-> 11]],
  [order_id |-> 2, customer_id |-> "C2",
   order_purchase_timestamp |-> [year |-> 2018, month |-> 3]] >>

\* olist_customers_dataset.csv: customer_id, customer_state, customer_city.
CustomerRows == <<
  [customer_id |-> "C1", customer_state |-> "SP", customer_city |-> "sao paulo"],
  [customer_id |-> "C2", customer_state |-> "RJ", customer_city |-> "niteroi"] >>

\* olist_sellers_dataset.csv: seller_id, seller_state, seller_city.
SellerRows == <<
  [seller_id |-> "S1", seller_state |-> "SP", seller_city |-> "campinas"],
  [seller_id |-> "S2", seller_state |-> "MG", seller_city |-> "uberaba"] >>

\* olist_order_items_dataset.csv.  Order 3 is in no orders extract, product
\* P3 in no products extract and seller S3 in no sellers extract.
ItemRows == <<
  [order_id |-> 1, order_item_id |-> 1, product_id |-> "P1", seller_id |-> "S1",
   price |-> 1000, freight_value |-> 200],
  [order_id |-> 1, order_item_id |-> 2, product_id |-> "P1", seller_id |-> "S1",
   price |-> 500, freight_value |-> 100],
  [order_id |-> 2, order_item_id |-> 1, product_id |-> "P2", seller_id |-> "S2",
   price |-> 2000, freight_value |-> 300],
  [order_id |-> 2, order_item_id |-> 2, product_id |-> "P3", seller_id |-> "S3",
   price |-> 700, freight_value |-> 100],
  [order_id |-> 3, order_item_id |-> 1, product_id |-> "P1", seller_id |-> "S1",
   price |-> 900, freight_value |-> 100] >>

\* olist_products_dataset.csv: product_id, product_category_name.
ProductP1 == [product_id |-> "P1", product_category_name |-> "cama_mesa_banho"]
ProductP2 == [product_id |-> "P2", product_category_name |-> "moveis_decoracao"]
ProductP2NoCategory == [product_id |-> "P2", product_category_name |-> NullStr]
ProductTables ==
  { <<ProductP1, ProductP2>>, <<ProductP1, ProductP2NoCategory>>, <<ProductP1>> }

\* product_category_name_translation.csv.
TransRows == <<
  [product_category_name |-> "cama_mesa_banho",
   product_category_name_english |-> "bed_bath_table"],
  [product_category_name |-> "moveis_decoracao",
   product_category_name_english |-> "furniture_decor"] >>

\* olist_order_payments_dataset.csv: order_id, payment_value (centavos).
PaymentRows == {
  [order_id |-> 1, payment_value |-> 1000],
  [order_id |-> 1, payment_value |-> 700],
  [order_id |-> 2, payment_value |-> 2000],
  [order_id |-> 3, payment_value |-> 500] }

\* olist_order_reviews_dataset.csv: order_id, review_score.
ReviewRows == {
  [order_id |-> 1, review_score |-> 5],
  [order_id |-> 1, review_score |-> 2],
  [order_id |-> 2, review_score |-> 4] }

\* The end-to-end example of the specification: two orders, three items,
\* payments summing to 17 and 20.
ExampleItems == SubSeq(ItemRows, 1, 3)
ExamplePayments == <<
  [order_id |-> 1, payment_value |-> 1000],
  [order_id |-> 1, payment_value |-> 700],
  [order_id |-> 2, payment_value |-> 2000] >>
ExampleReviews == <<
  [order_id |-> 1, review_score |-> 5],
  [order_id |-> 2, review_score |-> 4] >>

(* ------------------------------------------------------------------ *)
(* load_data                                                           *)
(* ------------------------------------------------------------------ *)
\* The merge with how="inner": a left row without a match is dropped.
MergeInner(left, right, on, nulls) ==
  LET RowsFor(l) ==
        LET m == SelectSeq(right, LAMBDA r : r[on] = l[on])
        IN  [i \in 1..Len(m) |-> l @@ m[i]]
  IN  Flatten([i \in 1..Len(left) |-> RowsFor(left[i])])

\* DataFrame.merge(right, on=on, how="left"): every left row is kept, in
\* order; a left row with k > 0 matching right rows becomes k rows, one with
\* no match becomes one row whose right columns are null.  Keys are compared
\* by equality (pandas also matches a null key with a null key).
MergeLeft(left, right, on, nulls) ==
  LET RowsFor(l) ==
        LET m == SelectSeq(right, LAMBDA r : r[on] = l[on])
        IN  IF m = <<>> THEN << l @@ nulls >>
            ELSE [i \in 1..Len(m) |-> l @@ m[i]]
  IN  Flatten([i \in 1..Len(left) |-> RowsFor(left[i])])

\* The aggregation with .first() in place of .sum(): one row per order_id
\* holding the group's first value.
GroupFirst(tbl, key, col) ==
  LET keys == SortedSeq({tbl[i][key] : i \in 1..Len(tbl)})
      Grp(k) == SelectSeq(tbl, LAMBDA r : r[key] = k)
  IN  [i \in 1..Len(keys) |->
         [order_id |-> keys[i], payment_value |-> Grp(keys[i])[1][col]]]

\* payments.groupby("order_id", as_index=False)["payment_value"].sum():
\* one row per distinct order_id, sorted by order_id, holding the group's sum.
GroupSum(tbl, key, col) ==
  LET keys == SortedSeq({tbl[i][key] : i \in 1..Len(tbl)})
      Grp(k) == SelectSeq(tbl, LAMBDA r : r[key] = k)
  IN  [i \in 1..Len(keys) |->
         [order_id |-> keys[i], payment_value |-> SumSeq(Column(Grp(keys[i]), col))]]

\* reviews.groupby("order_id", as_index=False)["review_score"].mean():
\* one row per distinct order_id holding the group's mean, an exact fraction.
GroupMean(tbl, key, col) ==
  LET keys == SortedSeq({tbl[i][key] : i \in 1..Len(tbl)})
      Grp(k) == SelectSeq(tbl, LAMBDA r : r[key] = k)
  IN  [i \in 1..Len(keys) |->
         [order_id |-> keys[i],
          review_score |-> [num |-> SumSeq(Column(Grp(keys[i]), col)),
                            den |-> Len(Grp(keys[i]))]]]

\* The payments extract merged as it is, without the aggregation.
pay_sum_raw(pays) == pays

pay_sum(pays) == GroupSum(pays, "order_id", "payment_value")

rev_mean(revs) == GroupMean(revs, "order_id", "review_score")

\* The category column left as the merges produced it, without fillna.
FillCategoryOmitted(row) == row

\* Series.fillna("Unknown") on product_category_name_english.
FillCategory(row) ==
  [row EXCEPT !.product_category_name_english =
     IF @ = NullStr THEN "Unknown" ELSE @]

\* df["order_year"] = ts.dt.year; df["order_month"] = ts.dt.to_period("M"),
\* kept as the number yyyymm, which orders as the string "yyyy-mm" does.
TimeColumns(row) ==
  LET ts == row.order_purchase_timestamp
  IN  row @@ [order_year |-> ts.year,
              order_month |-> IF ts = NaT THEN NaN ELSE ts.year * 100 + ts.month]

\* The chain of merges of load_data, then the derived columns.
load_data(ords, custs, its, prods, trs, sells, pays, revs) ==
  LET j1 == MergeLeft(ords, custs, "customer_id",
                      [customer_state |-> NullStr, customer_city |-> NullStr])
      j2 == MergeLeft(j1, its, "order_id",
                      [order_item_id |-> NaN, product_id |-> NullStr,
                       seller_id |-> NullStr, price |-> NaN, freight_value |-> NaN])
      j3 == MergeLeft(j2, prods, "product_id", [product_category_name |-> NullStr])
      j4 == MergeLeft(j3, trs, "product_category_name",
                      [product_category_name_english |-> NullStr])
      j5 == MergeLeft(j4, sells, "seller_id",
                      [seller_state |-> NullStr, seller_city |-> NullStr])
      j6 == MergeLeft(j5, pay_sum(pays), "order_id", [payment_value |-> NaN])
      j7 == MergeLeft(j6, rev_mean(revs), "order_id", [review_score |-> NaNFrac])
  IN  [i \in 1..Len(j7) |-> FillCategory(TimeColumns(j7[i]))]

(* ------------------------------------------------------------------ *)
(* The interactive script: sidebar widgets                             *)
(* ------------------------------------------------------------------ *)
SetMin(S) == CHOOSE x \in S : \A y \in S : x <= y
SetMax(S) == CHOOSE x \in S : \A y \in S : x >= y

\* years = sorted(df["order_year"].dropna().unique().tolist())
years(tbl) == {tbl[i].order_year : i \in 1..Len(tbl)} \ {NaN}
year_min(tbl) == SetMin(years(tbl))
year_max(tbl) == SetMax(years(tbl))

\* The values the year slider can return: lo <= hi within its bounds.
YearRanges(tbl) ==
  {r \in (year_min(tbl)..year_max(tbl)) \X (year_min(tbl)..year_max(tbl)) : r[1] <= r[2]}

\* state_options = sorted(df["customer_state"].dropna().unique().tolist())
state_options(tbl) == {tbl[i].customer_state : i \in 1..Len(tbl)} \ {NullStr}

\* df["product_category_name_english"].value_counts().head(N).index: the N
\* most frequent categories, equal counts in order of first appearance.
category_options(tbl) ==
  LET cats == {tbl[i].product_category_name_english : i \in 1..Len(tbl)}
      Count(c) == Len(RowsOf(tbl, "product_category_name_english", c))
      First(c) == SetMin({i \in 1..Len(tbl) : tbl[i].product_category_name_english = c})
      Before(a, b) == Count(a) > Count(b) \/ (Count(a) = Count(b) /\ First(a) < First(b))
  IN  {c \in cats : Cardinality({a \in cats : Before(a, c)}) < TopCategories}

\* float(df["payment_value"].min()) and .max(): nulls are skipped, the
\* result is NaN when every value is null.
PaymentValues(tbl) == {tbl[i].payment_value : i \in 1..Len(tbl)} \ {NaN}
min_payment(tbl) == IF PaymentValues(tbl) = {} THEN NaN ELSE SetMin(PaymentValues(tbl))
max_payment(tbl) == IF PaymentValues(tbl) = {} THEN NaN ELSE SetMax(PaymentValues(tbl))

\* round(x, 1) of an amount x given in tenths of a centavo; the result is in
\* centavos, a multiple of 10 (BRL 0.1).  An exact half goes to the even
\* neighbour.
Round1(x) ==
  LET q == x \div 100
      r == x % 100
  IN  IF r < 50 THEN 10 * q
      ELSE IF r > 50 THEN 10 * (q + 1)
      ELSE IF q % 2 = 0 THEN 10 * q ELSE 10 * (q + 1)

\* min_value and max_value of the payment slider.
SliderMin(tbl) == Round1(10 * min_payment(tbl))
SliderMax(tbl) == Round1(10 * max_payment(tbl))

\* The slider opened on its whole range.
DefaultPaymentRangeFull(tbl) ==
  IF PaymentValues(tbl) = {} THEN <<NaN, NaN>>
  ELSE << Round1(10 * min_payment(tbl)), Round1(10 * max_payment(tbl)) >>

\* value=(round(min_payment, 1), round(min_payment + (max_payment - min_payment) * 0.7, 1))
DefaultPaymentRange(tbl) ==
  IF PaymentValues(tbl) = {} THEN <<NaN, NaN>>
  ELSE << Round1(10 * min_payment(tbl)),
          Round1(10 * min_payment(tbl) + 7 * (max_payment(tbl) - min_payment(tbl))) >>

\* The values the payment slider can return.  The widget moves in steps of
\* one centavo between its bounds; the model lets the user stop at the
\* bounds, at the default upper value and at the payments of the table.
PaymentRanges(tbl) ==
  IF PaymentValues(tbl) = {} THEN {<<NaN, NaN>>}
  ELSE LET stops == {SliderMin(tbl), SliderMax(tbl), DefaultPaymentRange(tbl)[2]} \cup
                    {v \in PaymentValues(tbl) : SliderMin(tbl) <= v /\ v <= SliderMax(tbl)}
       IN  {r \in stops \X stops : r[1] <= r[2]}

(* ------------------------------------------------------------------ *)
(* The interactive script: filter, KPIs and chart datasets             *)
(* ------------------------------------------------------------------ *)
\* between(lo, hi, inclusive="neither").
BetweenExclusive(x, lo, hi) == x # NaN /\ lo # NaN /\ hi # NaN /\ lo < x /\ x < hi

\* Series.between(lo, hi), inclusive on both sides; a null is never between.
Between(x, lo, hi) == x # NaN /\ lo # NaN /\ hi # NaN /\ lo <= x /\ x <= hi

\* The filter applied to the frame the previous run left.
FilterSourcePrevious(tbl, previous) == previous

\* filtered = df.copy(): the filter starts from the whole fact table, never
\* from the frame the previous run left.
FilterSource(tbl, previous) == tbl

\* The four masks joined by &.
ApplyFilters(tbl, yr, sts, cats, pr) ==
  SelectSeq(tbl, LAMBDA r :
    /\ Between(r.order_year, yr[1], yr[2])
    /\ r.customer_state \in sts
    /\ r.product_category_name_english \in cats
    /\ Between(r.payment_value, pr[1], pr[2]))

\* Series.sum(): nulls are skipped.
SumSkipNa(s) == SumSeq(SelectSeq(s, LAMBDA x : x # NaN))

\* Series.mean() of a numeric column: nulls are skipped, NaN over nothing.
MeanSkipNa(s) ==
  LET v == SelectSeq(s, LAMBDA x : x # NaN)
  IN  IF v = <<>> THEN NaNFrac ELSE [num |-> SumSeq(v), den |-> Len(v)]

RECURSIVE FracSum(_)
FracSum(s) ==
  IF s = <<>> THEN [num |-> 0, den |-> 1]
  ELSE LET t == FracSum(Tail(s))
       IN  [num |-> Head(s).num * t.den + t.num * Head(s).den,
            den |-> Head(s).den * t.den]

\* Series.mean() of the review_score column, whose values are fractions.
MeanOfFracs(s) ==
  LET v == SelectSeq(s, LAMBDA x : x # NaNFrac)
  IN  IF v = <<>> THEN NaNFrac
      ELSE [num |-> FracSum(v).num, den |-> FracSum(v).den * Len(v)]

\* filtered["order_id"].nunique()
total_orders(tbl) == Cardinality({tbl[i].order_id : i \in 1..Len(tbl)})

\* The revenue with each order's payment counted once.
total_revenue_per_order(tbl) ==
  LET ids == SortedSeq({tbl[i].order_id : i \in 1..Len(tbl)})
  IN  SumSkipNa([k \in 1..Len(ids) |-> RowsOf(tbl, "order_id", ids[k])[1].payment_value])

\* filtered["payment_value"].sum()
total_revenue(tbl) == SumSkipNa(Column(tbl, "payment_value"))

\* filtered.groupby("order_id")["payment_value"].sum().mean(): the rows'
\* payment_value is summed per order_id, then the sums are averaged.
avg_ticket(tbl) ==
  LET ids == SortedSeq({tbl[i].order_id : i \in 1..Len(tbl)})
      sums == [k \in 1..Len(ids) |->
                 SumSkipNa(Column(RowsOf(tbl, "order_id", ids[k]), "payment_value"))]
  IN  MeanSkipNa(sums)

\* filtered["review_score"].mean()
avg_review(tbl) == MeanOfFracs(Column(tbl, "review_score"))

\* groupby(key)[val].nunique().reset_index(name=...): one row per non-null
\* key with the number of distinct non-null values.
NUniqueBy(tbl, key, keynull, val, valnull) ==
  { [key |-> k,
     n |-> Cardinality({tbl[i][val] : i \in {j \in 1..Len(tbl) : tbl[j][key] = k}}
                       \ {valnull})] :
    k \in {tbl[i][key] : i \in 1..Len(tbl)} \ {keynull} }

\* sort_values(metric, ascending=False).head(n) as a set of rows: the rows
\* with fewer than n rows of a larger metric.  The model's frames have fewer
\* than n groups, so no tie is ever cut.
HeadByMetric(S, n) == {x \in S : Cardinality({a \in S : a.n > x.n}) < n}

CategoriesHead == 50
SellersHead == 100

cust_state(tbl) == NUniqueBy(tbl, "customer_state", NullStr, "customer_id", NullStr)
seller_state(tbl) == NUniqueBy(tbl, "seller_state", NullStr, "seller_id", NullStr)
top_cat(tbl) ==
  HeadByMetric(NUniqueBy(tbl, "product_category_name_english", NullStr, "order_id", NaN),
               CategoriesHead)
monthly(tbl) == NUniqueBy(tbl, "order_month", NaN, "order_id", NaN)

\* groupby(["seller_id", "seller_state", "seller_city"])["order_id"].nunique():
\* a row with a null in any of the three keys is in no group.
top_sellers(tbl) ==
  LET keyed == SelectSeq(tbl, LAMBDA r :
                 r.seller_id # NullStr /\ r.seller_state # NullStr /\ r.seller_city # NullStr)
      keys == {<<keyed[i].seller_id, keyed[i].seller_state, keyed[i].seller_city>> :
                 i \in 1..Len(keyed)}
  IN  HeadByMetric(
        { [key |-> k,
           n |-> Cardinality({keyed[i].order_id :
                   i \in {j \in 1..Len(keyed) :
                            <<keyed[j].seller_id, keyed[j].seller_state,
                              keyed[j].seller_city>> = k}})] : k \in keys },
        SellersHead)

(* ------------------------------------------------------------------ *)
(* The static script                                                   *)
(* ------------------------------------------------------------------ *)
\* Rows of fact_orders_with_sentiment.csv the model draws the file from.
StaticRows == <<
  [order_id |-> 1, order_purchase_timestamp |-> [year |-> 2017, month |-> 11],
   customer_state |-> "SP",
   payment_value |-> 1700, freight_value |-> 200, review_score |-> 5,
   sentiment_label |-> "positive"],
  [order_id |-> 1, order_purchase_timestamp |-> [year |-> 2017, month |-> 11],
   customer_state |-> "SP",
   payment_value |-> 1700, freight_value |-> 100, review_score |-> 5,
   sentiment_label |-> "positive"],
  [order_id |-> 2, order_purchase_timestamp |-> [year |-> 2018, month |-> 3],
   customer_state |-> "RJ",
   payment_value |-> 2000, freight_value |-> 300, review_score |-> 4,
   sentiment_label |-> "neutral"],
  [order_id |-> 3, order_purchase_timestamp |-> [year |-> 2018, month |-> 3],
   customer_state |-> "RJ",
   payment_value |-> NaN, freight_value |-> 150, review_score |-> 1,
   sentiment_label |-> "negative"] >>

\* df.groupby(key).agg(revenue=("payment_value", "sum")): one row per key.
RevenueBy(tbl, key, keynull) ==
  { [key |-> k, n |-> SumSkipNa(Column(RowsOf(tbl, key, k), "payment_value"))] :
    k \in {tbl[i][key] : i \in 1..Len(tbl)} \ {keynull} }

StatesHead == 10

\* df["year_month"] = df["order_purchase_timestamp"].dt.to_period("M"), kept
\* as the number yyyymm.
YearMonth(row) ==
  LET ts == row.order_purchase_timestamp
  IN  row @@ [year_month |-> IF ts = NaT THEN NaN ELSE ts.year * 100 + ts.month]

\* The KPI tiles and chart datasets of the static script, computed from the
\* rows read.
StaticReport(rows) ==
  LET tbl == [i \in 1..Len(rows) |-> YearMonth(rows[i])]
  IN
  [ status |-> "written",
    total_revenue |-> total_revenue(tbl),
    total_orders |-> total_orders(tbl),
    avg_order_value |-> MeanSkipNa(Column(tbl, "payment_value")),
    avg_freight |-> MeanSkipNa(Column(tbl, "freight_value")),
    avg_review |-> MeanSkipNa(Column(tbl, "review_score")),
    sent_counts |-> { [key |-> l, n |-> Len(RowsOf(tbl, "sentiment_label", l))] :
                      l \in {tbl[i].sentiment_label : i \in 1..Len(tbl)} },
    monthly_revenue |-> RevenueBy(tbl, "year_month", NaN),
    monthly_orders |-> NUniqueBy(tbl, "year_month", NaN, "order_id", NaN),
    state_rev |-> HeadByMetric(RevenueBy(tbl, "customer_state", NullStr), StatesHead) ]

NoReport ==
  [ status |-> "none", total_revenue |-> NaN, total_orders |-> NaN,
    avg_order_value |-> NaNFrac, avg_freight |-> NaNFrac, avg_review |-> NaNFrac,
    sent_counts |-> {}, monthly_revenue |-> {}, monthly_orders |-> {}, state_rev |-> {} ]

(* ------------------------------------------------------------------ *)
(* State                                                               *)
(* ------------------------------------------------------------------ *)
VARIABLES
  orders, customers, sellers, items, payments, products, reviews, trans,
  fact_csv,             \* the rows of fact_orders_with_sentiment.csv
  cached,               \* whether st.cache_data holds load_data's result
  cache,                \* the result st.cache_data holds
  df,                   \* the interactive script's global df
  year_range,           \* the widgets' values, kept by the session
  selected_states,
  selected_categories,
  payment_range,
  filtered,             \* the frame the last run filtered
  out,                  \* what the last run of the interactive script showed
  report                \* what the static script computed

sources == <<orders, customers, sellers, items, payments, products, reviews, trans>>
widgets == <<year_range, selected_states, selected_categories, payment_range>>
vars == <<sources, fact_csv, cached, cache, df, widgets, filtered, out, report>>

\* What load_data returns for the extracts on disk.
Fact == load_data(orders, customers, items, products, trans, sellers, payments, reviews)

\* The page before any run, after an exception, and on the no-data path.
Page(status) ==
  [ status |-> status, computed |-> {},
    total_orders |-> NaN, total_revenue |-> NaN,
    avg_ticket |-> NaNFrac, avg_review |-> NaNFrac,
    cust_state |-> {}, seller_state |-> {}, top_cat |-> {}, monthly |-> {},
    top_sellers |-> {} ]

\* The page of a run that passed the guard: KPI tiles, the four charts and
\* the top-sellers table, all computed from the filtered frame.
Rendered(tbl) ==
  [ status |-> "rendered", computed |-> {"kpis", "charts", "top_sellers"},
    total_orders |-> total_orders(tbl), total_revenue |-> total_revenue(tbl),
    avg_ticket |-> avg_ticket(tbl), avg_review |-> avg_review(tbl),
    cust_state |-> cust_state(tbl), seller_state |-> seller_state(tbl),
    top_cat |-> top_cat(tbl), monthly |-> monthly(tbl),
    top_sellers |-> top_sellers(tbl) ]

\* The script without the guard: the KPI section runs on any frame.
RenderUnguarded(tbl) == Rendered(tbl)

\* if filtered.empty: st.warning(...); st.stop()   else the KPI section,
\* the chart rows and the top-sellers table.
RenderOrStop(tbl) == IF tbl = <<>> THEN Page("no_data") ELSE Rendered(tbl)

Fresh ==
  /\ cached = FALSE /\ cache = <<>> /\ df = <<>>
  /\ year_range = <<NaN, NaN>> /\ selected_states = {} /\ selected_categories = {}
  /\ payment_range = <<NaN, NaN>>
  /\ filtered = <<>> /\ out = Page("none") /\ report = NoReport

\* Extracts that vary payments, reviews and items around the example.
InitPayments ==
  /\ orders = OrderRows /\ customers = CustomerRows /\ sellers = SellerRows
  /\ products = <<ProductP1, ProductP2>> /\ trans = TransRows
  /\ items \in {t \in SubSeqs(ItemRows) : Len(t) <= MaxItems}
  /\ payments \in SeqsUpTo(PaymentRows, MaxPayments) \cup {ExamplePayments}
  /\ reviews \in SeqsUpTo(ReviewRows, MaxReviews)

\* Extracts that vary which keys of the joins find a match.
InitJoins ==
  /\ orders \in SubSeqs(OrderRows) /\ customers \in SubSeqs(CustomerRows)
  /\ sellers \in {SellerRows, SubSeq(SellerRows, 1, 1)}
  /\ products \in ProductTables
  /\ trans \in {TransRows, SubSeq(TransRows, 1, 1)}
  /\ items \in {t \in SubSeqs(ItemRows) : Len(t) <= MaxItems}
  /\ payments = ExamplePayments /\ reviews = ExampleReviews

InitBuild ==
  /\ InitPayments \/ InitJoins
  /\ fact_csv = <<>>
  /\ Fresh

\* df = load_data() under @st.cache_data: the first call computes and stores
\* the table, a later call returns the stored one.
CallLoadData ==
  /\ df' = IF cached THEN cache ELSE Fact
  /\ cache' = df'
  /\ cached' = TRUE
  /\ UNCHANGED <<sources, fact_csv, widgets, filtered, out, report>>

NextBuild == CallLoadData

SpecBuild == InitBuild /\ [][NextBuild]_vars

(* ------------------------------------------------------------------ *)
(* Runs of the two scripts                                             *)
(* ------------------------------------------------------------------ *)
\* Payment tables of the dashboard runs: the example, the example with the
\* larger payment on order 1, one whose default slider range is rounded up,
\* one that leaves order 2 without payment, and none at all.
DashPayments == {
  ExamplePayments,
  << [order_id |-> 1, payment_value |-> 2000], [order_id |-> 2, payment_value |-> 1700] >>,
  << [order_id |-> 1, payment_value |-> 1700], [order_id |-> 2, payment_value |-> 1708] >>,
  << [order_id |-> 1, payment_value |-> 1700] >>,
  << >> }

InitDash ==
  /\ \/ /\ orders \in SubSeqs(OrderRows)
        /\ customers \in {CustomerRows, SubSeq(CustomerRows, 1, 1)}
        /\ items \in {t \in SubSeqs(SubSeq(ItemRows, 1, 4)) : Len(t) <= MaxItems}
        /\ payments \in DashPayments
        /\ fact_csv = <<>>
     \/ /\ orders = OrderRows /\ customers = CustomerRows
        /\ items = ExampleItems /\ payments = ExamplePayments
        /\ fact_csv \in SubSeqs(StaticRows)
  /\ sellers = SellerRows /\ products = <<ProductP1, ProductP2>> /\ trans = TransRows
  /\ reviews = ExampleReviews
  /\ Fresh

\* The script from the filter on (lines 137 to the end), for the widget
\* values yr, sts, cats and pr.
FilterAndRender(tbl, yr, sts, cats, pr) ==
  /\ year_range' = yr /\ selected_states' = sts
  /\ selected_categories' = cats /\ payment_range' = pr
  /\ filtered' = ApplyFilters(FilterSource(tbl, filtered), yr, sts, cats, pr)
  /\ out' = RenderOrStop(filtered')

\* A slider whose bounds are NaN (no row has a payment) or equal: the widget
\* library either rejects it with an exception or returns its default.
DegenerateSlider(tbl) ==
  \/ PaymentValues(tbl) = {}
  \/ PaymentValues(tbl) # {} /\ SliderMin(tbl) = SliderMax(tbl)
  \/ years(tbl) # {} /\ year_min(tbl) = year_max(tbl)

\* The first run of a session.  min(years) raises on a table without a
\* year, and a degenerate slider may raise; the run then ends with the
\* exception.  Otherwise every widget returns its default.
FirstRun ==
  /\ out.status = "none" /\ report.status = "none"
  /\ df' = IF cached THEN cache ELSE Fact
  /\ cache' = df' /\ cached' = TRUE
  /\ \/ /\ years(df') = {} \/ DegenerateSlider(df')
        /\ out' = Page("exception")
        /\ UNCHANGED <<widgets, filtered>>
     \/ /\ years(df') # {}
        /\ FilterAndRender(df', <<year_min(df'), year_max(df')>>, state_options(df'),
                           category_options(df'), DefaultPaymentRange(df'))
  /\ UNCHANGED <<sources, fact_csv, report>>

\* The sidebar is on the page: the last run reached the widgets.
SidebarShown == out.status \in {"no_data", "rendered"}

\* The user moves one widget and Streamlit runs the script again: df comes
\* from the cache, the other widgets keep their values.
Rerun(yr, sts, cats, pr) ==
  /\ <<yr, sts, cats, pr>> # widgets
  /\ df' = IF cached THEN cache ELSE Fact
  /\ cache' = df' /\ cached' = TRUE
  /\ FilterAndRender(df', yr, sts, cats, pr)
  /\ UNCHANGED <<sources, fact_csv, report>>

ChangeYearRange ==
  /\ SidebarShown
  /\ \E yr \in YearRanges(df) :
    Rerun(yr, selected_states, selected_categories, payment_range)

ChangeStates ==
  /\ SidebarShown
  /\ \E sts \in SUBSET state_options(df) :
    Rerun(year_range, sts, selected_categories, payment_range)

ChangeCategories ==
  /\ SidebarShown
  /\ \E cats \in SUBSET category_options(df) :
    Rerun(year_range, selected_states, cats, payment_range)

ChangePaymentRange ==
  /\ SidebarShown
  /\ \E pr \in PaymentRanges(df) :
    Rerun(year_range, selected_states, selected_categories, pr)

\* The static script: read the pre-joined CSV, compute the tiles and the
\* chart datasets.  It has no filter and no guard.
StaticRun ==
  /\ out.status = "none" /\ report.status = "none"
  /\ report' = StaticReport(fact_csv)
  /\ UNCHANGED <<sources, fact_csv, cached, cache, df, widgets, filtered, out>>

Next ==
  \/ FirstRun
  \/ ChangeYearRange
  \/ ChangeStates
  \/ ChangeCategories
  \/ ChangePaymentRange
  \/ StaticRun

Spec == InitDash /\ [][Next]_vars

(* ------------------------------------------------------------------ *)
(* Properties of the fact-table builder                                *)
(* ------------------------------------------------------------------ *)
\* How many rows of the fact table carry the columns of items row it.
FactRowsOfItem(it) ==
  Cardinality({i \in 1..Len(df) : \A c \in DOMAIN it : df[i][c] = it[c]})

HasOrder(id) == \E i \in 1..Len(orders) : orders[i].order_id = id

\* C1: every fact row carries its order's payment total, the sum of the
\* order's rows in the payments extract (null when the order has no payment
\* row), and its order's mean review score (null when it has no review), so
\* rows of one order agree on both; on the specification's example the fact
\* table has three rows with payment_value 17, 17 and 20.
C1_OrderLevelValues ==
  cached =>
    /\ \A i \in 1..Len(df) :
         LET ps == RowsOf(payments, "order_id", df[i].order_id)
             rs == RowsOf(reviews, "order_id", df[i].order_id)
         IN  /\ df[i].payment_value =
                  IF ps = <<>> THEN NaN ELSE SumSeq(Column(ps, "payment_value"))
             /\ df[i].review_score =
                  IF rs = <<>> THEN NaNFrac
                  ELSE [num |-> SumSeq(Column(rs, "review_score")), den |-> Len(rs)]
    /\ \A i, j \in 1..Len(df) :
         df[i].order_id = df[j].order_id =>
           /\ df[i].payment_value = df[j].payment_value
           /\ df[i].review_score = df[j].review_score
    /\ (orders = OrderRows /\ items = ExampleItems /\ payments = ExamplePayments)
         => Column(df, "payment_value") = <<1700, 1700, 2000>>

\* The example has been loaded: order 1 has two item rows and two payment rows.
C1_Witness ==
  /\ cached /\ orders = OrderRows /\ items = ExampleItems
  /\ payments = ExamplePayments /\ reviews = ExampleReviews
  /\ Len(df) = 3 /\ df[1].payment_value = 1700 /\ df[2].payment_value = 1700

SourceCategory(pid) ==
  LET ps == RowsOf(products, "product_id", pid)
      ts == IF ps = <<>> THEN <<>>
            ELSE RowsOf(trans, "product_category_name", ps[1].product_category_name)
  IN  IF ts = <<>> THEN NullStr ELSE ts[1].product_category_name_english

\* C7: product_category_name_english is never null in the fact table: a row
\* whose source category is absent (no item, no product, no category or no
\* translation) holds "Unknown", a row with a translation keeps it.
C7_CategoryNeverNull ==
  cached =>
    \A i \in 1..Len(df) :
      /\ df[i].product_category_name_english # NullStr
      /\ df[i].product_category_name_english =
           IF SourceCategory(df[i].product_id) = NullStr THEN "Unknown"
           ELSE SourceCategory(df[i].product_id)

\* A translated row, a row of a product that is in no products row and a row
\* of a product without category or translation are in one fact table.
C7_Witness ==
  /\ cached
  /\ \E i \in 1..Len(df) : df[i].product_category_name_english = "bed_bath_table"
  /\ \E i \in 1..Len(df) :
       df[i].product_id = "P3" /\ df[i].product_category_name_english = "Unknown"
  /\ \E i \in 1..Len(df) :
       /\ df[i].product_id = "P2"
       /\ df[i].product_category_name_english = "Unknown"

\* C8: pay_sum has exactly one row per distinct order_id of the payments
\* extract, each holding the sum of that order's payment rows, so the total
\* of payment_value is the same before and after the aggregation.
C8_PaySumPreservesTotal ==
  cached =>
    LET ps == pay_sum(payments)
    IN  /\ {ps[i].order_id : i \in 1..Len(ps)} =
             {payments[k].order_id : k \in 1..Len(payments)}
        /\ \A i, j \in 1..Len(ps) : ps[i].order_id = ps[j].order_id => i = j
        /\ \A i \in 1..Len(ps) :
             ps[i].payment_value =
               SumSeq(Column(RowsOf(payments, "order_id", ps[i].order_id),
                             "payment_value"))
        /\ SumSeq(Column(ps, "payment_value")) =
             SumSeq(Column(payments, "payment_value"))

\* Two payment rows of one order were summed into the order's fact rows.
C8_Witness ==
  /\ cached
  /\ \E k, l \in 1..Len(payments) :
       k # l /\ payments[k].order_id = payments[l].order_id
  /\ Len(pay_sum(payments)) < Len(payments)
  /\ \E i \in 1..Len(df) :
       df[i].payment_value =
         SumSeq(Column(RowsOf(payments, "order_id", df[i].order_id), "payment_value"))

(* ------------------------------------------------------------------ *)
(* Properties of the dashboard runs                                    *)
(* ------------------------------------------------------------------ *)
\* a = b for two fractions.
FracEq(a, b) == a.num * b.den = b.num * a.den

\* The payment total of order id: the sum of its rows in the payments extract.
OrderTotal(id) == SumSeq(Column(RowsOf(payments, "order_id", id), "payment_value"))

OrderIds(tbl) == {tbl[i].order_id : i \in 1..Len(tbl)}

\* The mean of the orders' payment totals, each order counted once.
MeanOrderTotal(tbl) ==
  LET ids == SortedSeq(OrderIds(tbl))
  IN  [num |-> SumSeq([k \in 1..Len(ids) |-> OrderTotal(ids[k])]), den |-> Len(ids)]

\* The payment_value the rows of order id carry in the pre-joined CSV.
CsvOrderTotal(id) == RowsOf(fact_csv, "order_id", id)[1].payment_value

\* C2: the average-order-value tile is the mean, over the distinct orders of
\* the rows shown, of each order's payment total counted once per order
\* (18.5 on the specification's example), in the interactive and in the
\* static script.
C2_AverageOrderValue ==
  /\ out.status = "rendered" => FracEq(out.avg_ticket, MeanOrderTotal(filtered))
  /\ (report.status = "written" /\ fact_csv # <<>>
        /\ \A i \in 1..Len(fact_csv) : fact_csv[i].payment_value # NaN)
       => LET ids == SortedSeq(OrderIds(fact_csv))
          IN  FracEq(report.avg_order_value,
                     [num |-> SumSeq([k \in 1..Len(ids) |-> CsvOrderTotal(ids[k])]),
                      den |-> Len(ids)])

\* Row r passes the four predicates of the current widget values.
Passes(r) ==
  /\ r.order_year # NaN
  /\ year_range[1] <= r.order_year /\ r.order_year <= year_range[2]
  /\ r.customer_state \in selected_states
  /\ r.product_category_name_english \in selected_categories
  /\ r.payment_value # NaN /\ payment_range[1] # NaN /\ payment_range[2] # NaN
  /\ payment_range[1] <= r.payment_value /\ r.payment_value <= payment_range[2]

\* C4: after every run that reaches the filter, the filtered frame is
\* exactly the fact rows that pass all four predicates: no row that fails
\* one is in it, and no row that passes all of them is left out.
C4_FilterIsConjunction ==
  SidebarShown =>
    /\ \A k \in 1..Len(filtered) : Passes(filtered[k])
    /\ \A i \in 1..Len(df) : Passes(df[i]) => df[i] \in Range(filtered)
    /\ Range(filtered) \subseteq Range(df)
    /\ Len(filtered) = Cardinality({i \in 1..Len(df) : Passes(df[i])})

\* A run kept a row whose payment is the upper bound of the payment range
\* and whose year is the upper bound of the year range, and dropped another.
C4_Witness ==
  /\ out.status = "rendered"
  /\ Len(filtered) < Len(df)
  /\ \E k \in 1..Len(filtered) :
       /\ filtered[k].payment_value = payment_range[2]
       /\ filtered[k].order_year = year_range[2]
  /\ \E i \in 1..Len(df) : ~Passes(df[i]) /\ df[i].payment_value # NaN

\* C5 as stated: whenever the rows to aggregate are empty, an empty filter
\* result or an empty table, the run shows the notice and computes nothing,
\* in the interactive and in the static script.
C5_NoDataWheneverEmpty ==
  /\ (SidebarShown /\ filtered = <<>>) => out.status = "no_data"
  /\ (out.status # "none" /\ df = <<>>) => out.status = "no_data"
  /\ (report.status # "none" /\ fact_csv = <<>>) => report.status = "no_data"

\* C5 amended: an interactive run whose filter leaves no row shows the
\* notice and computes no KPI, chart dataset or top-sellers table, and only
\* such a run does; a run on an empty fact table stops with an exception
\* before the filter and computes nothing either; the static script has no
\* guard and computes its tiles on whatever it reads, an empty file included.
C5_NoDataAfterEmptyFilter ==
  /\ SidebarShown =>
       /\ (filtered = <<>>) <=> (out.status = "no_data")
       /\ (filtered # <<>>) <=> (out.computed = {"kpis", "charts", "top_sellers"})
       /\ filtered = <<>> =>
            /\ out.computed = {}
            /\ out.total_orders = NaN /\ out.total_revenue = NaN
            /\ out.avg_ticket = NaNFrac /\ out.avg_review = NaNFrac
            /\ out.cust_state = {} /\ out.seller_state = {} /\ out.top_cat = {}
            /\ out.monthly = {} /\ out.top_sellers = {}
  /\ (out.status # "none" /\ df = <<>>) =>
       out.status = "exception" /\ out.computed = {}
  /\ (report.status # "none" /\ fact_csv = <<>>) =>
       report.status = "written" /\ report.total_orders = 0

\* The user emptied the state selection of a table that has rows: the run
\* showed the notice.
C5_Witness ==
  /\ out.status = "no_data" /\ df # <<>> /\ filtered = <<>>
  /\ selected_states = {} /\ state_options(df) # {}

\* C6: on a non-empty filtered frame in which some order has more than one
\* row, the average order value tile is at most the total revenue tile.
C6_AvgTicketAtMostRevenue ==
  (/\ out.status = "rendered"
   /\ \E i, j \in 1..Len(filtered) : i # j /\ filtered[i].order_id = filtered[j].order_id)
    => /\ out.avg_ticket.den > 0
       /\ out.avg_ticket.num <= out.total_revenue * out.avg_ticket.den

\* Two orders are shown, one with two rows: the average is strictly below
\* the revenue.
C6_Witness ==
  /\ out.status = "rendered"
  /\ \E i, j \in 1..Len(filtered) : i # j /\ filtered[i].order_id = filtered[j].order_id
  /\ out.total_orders = 2
  /\ out.avg_ticket.num < out.total_revenue * out.avg_ticket.den

\* C9: after any sequence of interactions the cached fact table is still
\* what load_data returns for the extracts, and the frame and the page are
\* what the filter and the KPI section give for that table under the current
\* widget values alone.
C9_RunDependsOnLatestFilterOnly ==
  SidebarShown =>
    /\ cached /\ cache = Fact /\ df = Fact
    /\ filtered = SelectSeq(Fact, Passes)
    /\ out.status = IF filtered = <<>> THEN "no_data" ELSE "rendered"
    /\ filtered # <<>> =>
         /\ out.total_orders = Cardinality(OrderIds(SelectSeq(Fact, Passes)))
         /\ out.total_revenue = SumSeq(Column(SelectSeq(Fact, Passes), "payment_value"))
         /\ out.avg_ticket = avg_ticket(SelectSeq(Fact, Passes))
         /\ out.avg_review = avg_review(SelectSeq(Fact, Passes))

\* The widgets are at the values the first run gave them.
AtDefaults ==
  /\ SidebarShown
  /\ year_range = <<year_min(df), year_max(df)>>
  /\ selected_states = state_options(df)
  /\ selected_categories = category_options(df)
  /\ payment_range = DefaultPaymentRange(df)

\* After at least three interactions (three widgets are off their defaults
\* and every interaction moves one) the page shows KPIs of a frame that is
\* smaller than the fact table.
C9_Witness ==
  /\ out.status = "rendered"
  /\ year_range # <<year_min(df), year_max(df)>>
  /\ selected_states # state_options(df)
  /\ payment_range # DefaultPaymentRange(df)
  /\ Len(filtered) < Len(df)

\* C10 as stated: under the default widget values every row whose
\* payment_value exceeds min + 0.7 * (max - min) is excluded.
C10_DefaultExcludesAboveSeventyPercent ==
  AtDefaults =>
    \A i \in 1..Len(df) :
      (/\ df[i].payment_value # NaN
       /\ 10 * df[i].payment_value >
            10 * min_payment(df) + 7 * (max_payment(df) - min_payment(df)))
        => df[i] \notin Range(filtered)

\* C10 amended: under every filter the widgets can produce no row with a
\* null payment_value or customer_state is in the filtered frame; under the
\* default widget values no row is in it whose payment_value exceeds the
\* slider's default upper value round(min + 0.7 * (max - min), 1) or is below
\* round(min, 1), nor one whose category is not among the N most frequent.
C10_NullsAndDefaultExclusions ==
  /\ SidebarShown =>
       \A k \in 1..Len(filtered) :
         filtered[k].payment_value # NaN /\ filtered[k].customer_state # NullStr
  /\ AtDefaults =>
       \A i \in 1..Len(df) :
         LET r == df[i]
             more == {c \in {df[j].product_category_name_english : j \in 1..Len(df)} :
                        Len(RowsOf(df, "product_category_name_english", c)) >
                        Len(RowsOf(df, "product_category_name_english",
                                   r.product_category_name_english))}
         IN  (\/ r.payment_value = NaN
              \/ r.customer_state = NullStr
              \/ r.payment_value >
                   Round1(10 * min_payment(df) + 7 * (max_payment(df) - min_payment(df)))
              \/ r.payment_value < Round1(10 * min_payment(df))
              \/ Cardinality(more) >= TopCategories)
               => r \notin Range(filtered)

\* The first run dropped a row for its payment above the default upper
\* value and a row for its category outside the most frequent ones.
C10_Witness ==
  /\ AtDefaults /\ out.status = "rendered"
  /\ \E i \in 1..Len(df) :
       df[i].payment_value > DefaultPaymentRange(df)[2] /\ df[i] \notin Range(filtered)
  /\ \E i \in 1..Len(df) :
       /\ df[i].product_category_name_english \notin category_options(df)
       /\ df[i].payment_value # NaN /\ df[i].payment_value <= DefaultPaymentRange(df)[2]
       /\ df[i] \notin Range(filtered)

====
